---- MODULE Spec2Model ----
(***************************************************************************)
(* Preset registry of webdav-mcp (presets/index.ts).  The repository holds *)
(* two revisions of the registry: the asynchronous one (fs/promises, a Map *)
(* merge, clearCache) and the synchronous one (blocking fs, concatenating  *)
(* merge).  The variable impl selects the revision a behaviour runs.       *)
(*                                                                         *)
(* JSON values are records tagged by k, with one payload field per kind so *)
(* that values of different kinds are comparable.  A string is a sequence  *)
(* of characters; a text that the code never inspects (a description) is   *)
(* written as a one-token sequence.                                        *)
(***************************************************************************)
EXTENDS Integers, Sequences, FiniteSets, TLC

VARIABLES impl, dir, files, now, ttl, cache, last, vIn, vOut, procs, hist,
          envDir, stale

vars ==
  <<impl, dir, files, now, ttl, cache, last, vIn, vOut, procs, hist, envDir,
    stale>>
regVars == <<impl, dir, files, now, ttl, cache, last>>
valVars == <<vIn, vOut>>
asyVars == <<procs, hist, stale>>

---------------------------------------------------------------------------
(* Bounds of the model *)
MaxTime == 2
MaxCalls == 2

---------------------------------------------------------------------------
(* JSON values *)
Undefined == [k |-> "undefined"]
JNull == [k |-> "null"]
JNum(n) == [k |-> "number", n |-> n]
JBool(b) == [k |-> "boolean", b |-> b]
JStr(s) == [k |-> "string", s |-> s]
JArr(a) == [k |-> "array", a |-> a]
JObj(o) == [k |-> "object", o |-> o]

(* property access preset.key: undefined unless an object has the field *)
Get(v, key) ==
  IF v.k = "object" /\ key \in DOMAIN v.o THEN v.o[key] ELSE Undefined

(* JavaScript truthiness, as used by !x *)
Truthy(v) ==
  CASE v.k = "undefined" -> FALSE
    [] v.k = "null" -> FALSE
    [] v.k = "number" -> v.n # 0
    [] v.k = "boolean" -> v.b
    [] v.k = "string" -> v.s # <<>>
    [] OTHER -> TRUE

(* typeof v === 'object' : arrays and null included *)
TypeofObject(v) == v.k \in {"object", "array", "null"}

---------------------------------------------------------------------------
(* Characters *)
Lower == {"a","b","c","d","e","f","g","h","i","j","k","l","m",
          "n","o","p","q","r","s","t","u","v","w","x","y","z"}
Upper == {"A","B","C","D","E","F","G","H","I","J","K","L","M",
          "N","O","P","Q","R","S","T","U","V","W","X","Y","Z"}
Digit == {"0","1","2","3","4","5","6","7","8","9"}
WhiteSpace == {" ", "\t", "\n"}

(* /^[-_a-zA-Z0-9]+$/ *)
PresetNameChars == Lower \cup Upper \cup Digit \cup {"-", "_"}
MatchesPresetName(s) ==
  Len(s) > 0 /\ \A i \in 1..Len(s) : s[i] \in PresetNameChars

(* /^[-_a-zA-Z0-9:.]+$/ *)
PropNameChars == PresetNameChars \cup {":", "."}
MatchesPropName(s) ==
  Len(s) > 0 /\ \A i \in 1..Len(s) : s[i] \in PropNameChars

(* the least and the greatest index of a non-empty set of indices *)
FirstOf(idx) == CHOOSE i \in idx : \A j \in idx : i <= j
LastOf(idx) == CHOOSE i \in idx : \A j \in idx : j <= i

(* String.prototype.trim: the text from the first to the last character    *)
(* that is not white space                                                 *)
Between(s, idx) ==
  IF idx = {} THEN <<>> ELSE SubSeq(s, FirstOf(idx), LastOf(idx))
Trim(s) == Between(s, {i \in 1..Len(s) : s[i] \notin WhiteSpace})

sanitizeName(name) == Trim(name)

---------------------------------------------------------------------------
(* new URL(ns) succeeds: a scheme (ALPHA followed by ALPHA / DIGIT / + - .) *)
(* ends at the first colon; a special scheme then needs a host, made of    *)
(* the characters up to the next / ? #, none of them a forbidden host      *)
(* code point; any other scheme takes the rest as an opaque path.          *)
SchemeChars == Lower \cup Upper \cup Digit \cup {"+", "-", "."}
SpecialSchemes == {<<"h","t","t","p">>, <<"h","t","t","p","s">>,
                   <<"f","t","p">>, <<"w","s">>, <<"w","s","s">>}
ForbiddenHostChars == {" ", "<", ">", "\"", "'", "^", "|", "%", "[", "]", "@", ":"}
ToLowerChar(c) ==
  IF c = "H" THEN "h" ELSE IF c = "T" THEN "t" ELSE IF c = "P" THEN "p"
  ELSE IF c = "S" THEN "s" ELSE IF c = "F" THEN "f" ELSE IF c = "W" THEN "w" ELSE c
HostEnd(rest, stops) ==
  IF stops = {} THEN Len(rest) ELSE FirstOf(stops) - 1
HostFrom(rest, h0) ==
  \A i \in h0..HostEnd(rest, {i \in h0..Len(rest) : rest[i] \in {"/", "\\", "?", "#"}}) :
     rest[i] \notin ForbiddenHostChars
HostAfter(rest, nonSlash) ==
  nonSlash # {} /\ HostFrom(rest, FirstOf(nonSlash))
HostOf(rest) ==
  HostAfter(rest, {i \in 1..Len(rest) : rest[i] \notin {"/", "\\"}})
SchemeEndsAt(s, c) ==
  /\ c > 1
  /\ s[1] \in Lower \cup Upper
  /\ \A i \in 1..(c - 1) : s[i] \in SchemeChars
  /\ [i \in 1..(c - 1) |-> ToLowerChar(s[i])] \in SpecialSchemes
       => HostOf(SubSeq(s, c + 1, Len(s)))
SchemeOf(s, colons) ==
  colons # {} /\ SchemeEndsAt(s, FirstOf(colons))
ParsesTrimmed(s) == SchemeOf(s, {i \in 1..Len(s) : s[i] = ":"})
ParsesAsUrl(s0) == ParsesTrimmed(Trim(s0))

NsDAV == <<"D","A","V",":">>

isValidNamespace(ns) ==
  IF ns = NsDAV THEN TRUE ELSE ParsesAsUrl(ns)

---------------------------------------------------------------------------
(* Property presets *)
MAX_PROPERTIES_PER_PRESET == 100
MAX_PRESETS_TOTAL == 200

Prop(ns, name) == [namespace |-> ns, name |-> name]
DAV(name) == Prop(NsDAV, name)

P_displayname == DAV(<<"d","i","s","p","l","a","y","n","a","m","e">>)
P_getcontentlength == DAV(<<"g","e","t","c","o","n","t","e","n","t","l","e","n","g","t","h">>)
P_getlastmodified == DAV(<<"g","e","t","l","a","s","t","m","o","d","i","f","i","e","d">>)
P_resourcetype == DAV(<<"r","e","s","o","u","r","c","e","t","y","p","e">>)
P_getcontenttype == DAV(<<"g","e","t","c","o","n","t","e","n","t","t","y","p","e">>)
P_creationdate == DAV(<<"c","r","e","a","t","i","o","n","d","a","t","e">>)
P_getetag == DAV(<<"g","e","t","e","t","a","g">>)
P_supportedlock == DAV(<<"s","u","p","p","o","r","t","e","d","l","o","c","k">>)
P_lockdiscovery == DAV(<<"l","o","c","k","d","i","s","c","o","v","e","r","y">>)

N_basic == <<"b","a","s","i","c">>
N_detailed == <<"d","e","t","a","i","l","e","d">>
N_minimal == <<"m","i","n","i","m","a","l">>

BUILTIN_PRESETS == <<
  [name |-> N_basic,
   description |-> JStr(<<"Essential file properties">>),
   builtin |-> TRUE,
   properties |-> <<P_displayname, P_getcontentlength, P_getlastmodified,
                    P_resourcetype, P_getcontenttype>>],
  [name |-> N_detailed,
   description |-> JStr(<<"Detailed resource properties">>),
   builtin |-> TRUE,
   properties |-> <<P_displayname, P_getcontentlength, P_getlastmodified,
                    P_resourcetype, P_getcontenttype, P_creationdate,
                    P_getetag, P_supportedlock, P_lockdiscovery>>],
  [name |-> N_minimal,
   description |-> JStr(<<"Minimal properties (resourcetype only)">>),
   builtin |-> TRUE,
   properties |-> <<P_resourcetype>>] >>

BuiltinNames == {BUILTIN_PRESETS[i].name : i \in 1..Len(BUILTIN_PRESETS)}

---------------------------------------------------------------------------
(* validatePreset.  The result is tagged: "ok" with the preset, "null" for *)
(* a rejected value, "throw" when the call raises a TypeError.             *)
VNull == [t |-> "null"]
VThrow == [t |-> "throw"]
VOk(p) == [t |-> "ok", p |-> p]

(* String(v), the coercion applied by new URL(v) and by RegExp.test(v) *)
DigitSeq == <<"0","1","2","3","4","5","6","7","8","9">>
RECURSIVE DigitsOf(_)
DigitsOf(n) ==
  IF n < 10 THEN <<DigitSeq[n + 1]>>
  ELSE DigitsOf(n \div 10) \o <<DigitSeq[(n % 10) + 1]>>
ToStringJS(v) ==
  CASE v.k = "string" -> v.s
    [] v.k = "number" -> DigitsOf(v.n)
    [] v.k = "boolean" ->
         IF v.b THEN <<"t","r","u","e">> ELSE <<"f","a","l","s","e">>
    [] v.k = "null" -> <<"n","u","l","l">>
    [] v.k = "undefined" -> <<"u","n","d","e","f","i","n","e","d">>
    [] OTHER -> <<"[","o","b","j","e","c","t"," ","O","b","j","e","c","t","]">>

(* one element of preset.properties: kept or skipped (continue) *)
(* a filter that does not look at the namespace *)
KeepProperty_AnyNamespace(p) ==
  /\ Truthy(p)
  /\ TypeofObject(p)
  /\ Truthy(Get(p, "namespace"))
  /\ Truthy(Get(p, "name"))
  /\ MatchesPropName(ToStringJS(Get(p, "name")))

KeepProperty(p) ==
  /\ Truthy(p)
  /\ TypeofObject(p)
  /\ Truthy(Get(p, "namespace"))
  /\ Truthy(Get(p, "name"))
  /\ isValidNamespace(ToStringJS(Get(p, "namespace")))
  /\ MatchesPropName(ToStringJS(Get(p, "name")))

(* the pushed { namespace, name }; a non-string value is written as the   *)
(* string that every later use (merge key, XML template) coerces it to    *)
PushedProperty(p) ==
  Prop(ToStringJS(Get(p, "namespace")), ToStringJS(Get(p, "name")))
PushedProperties(kept) == [i \in 1..Len(kept) |-> PushedProperty(kept[i])]
FilterProperties(ps) == PushedProperties(SelectSeq(ps, KeepProperty))

(* a size check that cuts an oversized list down to the cap *)
WithProperties_Truncates(preset, name, properties) ==
  IF Len(properties) = 0 THEN VNull
  ELSE VOk([name |-> name,
            description |->
              IF Get(preset, "description").k = "string"
              THEN Get(preset, "description") ELSE Undefined,
            properties |->
              SubSeq(properties, 1,
                     IF Len(properties) > MAX_PROPERTIES_PER_PRESET
                     THEN MAX_PROPERTIES_PER_PRESET ELSE Len(properties)),
            builtin |-> Get(preset, "builtin") = JBool(TRUE)])

(* validatePreset from the size check of the filtered properties on *)
WithProperties(preset, name, properties) ==
  IF Len(properties) = 0 \/ Len(properties) > MAX_PROPERTIES_PER_PRESET
  THEN VNull
  ELSE VOk([name |-> name,
            description |->
              IF Get(preset, "description").k = "string"
              THEN Get(preset, "description") ELSE Undefined,
            properties |-> properties,
            builtin |-> Get(preset, "builtin") = JBool(TRUE)])

(* validatePreset from the check of the sanitized name on *)
WithName(preset, name) ==
  IF name = <<>> \/ ~MatchesPresetName(name) THEN VNull
  ELSE IF Get(preset, "properties").k # "array" THEN VNull
  ELSE WithProperties(preset, name,
                      FilterProperties(Get(preset, "properties").a))

validatePreset(preset) ==
  IF ~Truthy(preset) \/ ~TypeofObject(preset) THEN VNull
  ELSE IF Get(preset, "name").k # "string" THEN VThrow
  ELSE WithName(preset, sanitizeName(Get(preset, "name").s))

---------------------------------------------------------------------------
(* The preset directory.  A file holds a text, either the serialisation of *)
(* a JSON value or text that JSON.parse rejects; the state names the text  *)
(* of a file and TextOf gives the text of that name.                       *)
JsonText(v) == [wf |-> TRUE, v |-> v]
Garbage == [wf |-> FALSE]
JSONparse(text) == IF text.wf THEN [t |-> "ok", v |-> text.v] ELSE [t |-> "throw"]

Absent == [exists |-> FALSE]
File(mtime, text) == [exists |-> TRUE, mtime |-> mtime, text |-> text]

JsonFileNames == {"a.json", "b.json"}
OtherFileNames == {"notes.txt"}
FileNames == JsonFileNames \cup OtherFileNames
(* f.endsWith('.json') *)
EndsWithJson(f) == f \in JsonFileNames

(* fs.readdir(PRESETS_DIR): the names of the existing files, in an order   *)
(* the operating system chooses                                            *)
Listings(fls) ==
  LET present == {f \in FileNames : fls[f].exists}
  IN {o \in [1..Cardinality(present) -> present] :
        \A i, j \in 1..Cardinality(present) : i # j => o[i] # o[j]}

RECURSIVE FilterJson(_)
FilterJson(names) ==
  IF names = <<>> THEN <<>>
  ELSE (IF EndsWithJson(Head(names)) THEN <<Head(names)>> ELSE <<>>)
       \o FilterJson(Tail(names))

---------------------------------------------------------------------------
(* Texts the preset files take in the model *)
PropObj(p) == JObj([namespace |-> JStr(p.namespace), name |-> JStr(p.name)])
PresetObj(name, desc, props) ==
  JObj([name |-> JStr(name), description |-> JStr(<<desc>>),
        properties |-> JArr(props)])

P_custom == DAV(<<"c","u","s","t","o","m","-","p","r","o","p">>)
N_x == <<"x">>
N_y == <<"y">>
N_z == <<"z">>
N_t == <<"t">>

(* a preset named like a built-in, as in testUserPresetOverride, followed *)
(* by one named like a preset of T_mixed                                   *)
T_override ==
  JsonText(JArr(<<
    PresetObj(N_basic, "Custom basic preset", <<PropObj(P_custom)>>),
    PresetObj(N_y, "y of b.json", <<PropObj(P_getetag)>>) >>))
(* an array mixing rejected candidates with valid ones, two of which share *)
(* a name (testValidationInvalidNames, testValidationMissingProperties,    *)
(* testValidationOversizedPresets), and a candidate without a name         *)
TooManyProps ==
  [i \in 1..(MAX_PROPERTIES_PER_PRESET + 1) |->
     PropObj(DAV(<<"p">> \o DigitsOf(i)))]
T_mixed ==
  JsonText(JArr(<<
    PresetObj(<<>>, "empty name", <<PropObj(P_displayname)>>),
    PresetObj(N_x, "first x", <<PropObj(P_displayname)>>),
    PresetObj(<<"h","a","s"," ","s","p","a","c","e","s">>, "bad name",
              <<PropObj(P_displayname)>>),
    JObj([name |-> JStr(<<"n","o","-","p","r","o","p","s">>)]),
    PresetObj(<<"e","m","p","t","y">>, "empty properties", <<>>),
    PresetObj(<<"b","i","g">>, "too many properties", TooManyProps),
    PresetObj(N_y, "y of a.json", <<PropObj(P_getetag), JNull>>),
    PresetObj(N_x, "second x", <<PropObj(P_resourcetype)>>),
    JObj([properties |-> JArr(<<PropObj(P_displayname)>>)]),
    PresetObj(N_z, "after the nameless one", <<PropObj(P_displayname)>>) >>))
(* one valid preset more than the cap, the first two sharing a name *)
T_bulk ==
  JsonText(JArr([i \in 1..(MAX_PRESETS_TOTAL + 1) |->
                   PresetObj(<<"u">> \o DigitsOf(IF i = 2 THEN 1 ELSE i), "bulk",
                             <<PropObj(P_resourcetype)>>)]))
(* as many valid presets as the cap allows, none named like a built-in *)
T_brim ==
  JsonText(JArr([i \in 1..MAX_PRESETS_TOTAL |->
                   PresetObj(<<"v">> \o DigitsOf(i), "brim",
                             <<PropObj(P_resourcetype)>>)]))
(* a single preset object, as in testFileLoadingValidJSON *)
(* a preset whose file claims the flag of the built-in presets *)
N_f == <<"f">>
T_flagged ==
  JsonText(JObj([name |-> JStr(N_f), properties |-> JArr(<<PropObj(P_getetag)>>),
                 builtin |-> JBool(TRUE)]))

T_single ==
  JsonText(PresetObj(<<"m">>, "a single object", <<PropObj(P_resourcetype)>>))
T_note == JsonText(PresetObj(N_t, "not a json file", <<PropObj(P_getetag)>>))

TextOf(id) ==
  CASE id = "mixed" -> T_mixed
    [] id = "single" -> T_single
    [] id = "bulk" -> T_bulk
    [] id = "brim" -> T_brim
    [] id = "flagged" -> T_flagged
    [] id = "override" -> T_override
    [] id = "note" -> T_note
    [] OTHER -> Garbage

TextsOf(f) ==
  CASE f = "a.json" -> {"single", "mixed", "bulk"}
    [] f = "b.json" -> {"override", "garbage"}
    [] OTHER -> {"note"}

---------------------------------------------------------------------------
(* loadUserPresets, the body of the loop over the files.  acc holds the    *)
(* locals all and mtimes.                                                  *)

(* for (const entry of parsed) { validatePreset(entry) ... }: a throw of   *)
(* validatePreset leaves the loop for the catch of the file                *)
IsOk(v) == v.t = "ok"
PresetsOf(vs) == [i \in 1..Len(vs) |-> vs[i].p]
Completed(res, throws) ==
  IF throws = {} THEN Len(res) ELSE FirstOf(throws) - 1
PushedBeforeThrow(res) ==
  PresetsOf(SelectSeq(SubSeq(res, 1, Completed(res, {i \in 1..Len(res) :
                                                        res[i].t = "throw"})),
                      IsOk))
ValidateEntries(entries) ==
  PushedBeforeThrow([i \in 1..Len(entries) |-> validatePreset(entries[i])])

(* the presets that the try block of a file pushes onto all: none when     *)
(* JSON.parse throws, the root itself when it is not an array              *)
Pushed(text) ==
  LET parsed == JSONparse(text)
  IN IF parsed.t = "throw" THEN <<>>
     ELSE IF parsed.v.k = "array" THEN ValidateEntries(parsed.v.a)
     ELSE ValidateEntries(<<parsed.v>>)

(* Pushed, tabulated over the texts of the model *)
TextIds ==
  {"single", "mixed", "bulk", "brim", "flagged", "override", "garbage", "note"}
PushedOf == [id \in TextIds |-> Pushed(TextOf(id))]

(* a loader in which an unparsable file discards what the pass has loaded *)
LoadFile_AbortsOnGarbage(acc, f, fl) ==
  IF ~fl.exists THEN acc
  ELSE [all |-> IF TextOf(fl.text).wf THEN acc.all \o PushedOf[fl.text] ELSE <<>>,
        mtimes |-> Append(acc.mtimes, [file |-> f, mtime |-> fl.mtime])]

(* a loader that records the modification time after the parse, so that a  *)
(* file that fails to parse is not tracked                                 *)
LoadFile_TracksParsedOnly(acc, f, fl) ==
  IF ~fl.exists THEN acc
  ELSE IF ~TextOf(fl.text).wf THEN acc
  ELSE [all |-> acc.all \o PushedOf[fl.text],
        mtimes |-> Append(acc.mtimes, [file |-> f, mtime |-> fl.mtime])]

LoadFile(acc, f, fl) ==
  IF ~fl.exists THEN acc   \* fs.stat throws, caught
  ELSE [all |-> acc.all \o PushedOf[fl.text],
        mtimes |-> Append(acc.mtimes, [file |-> f, mtime |-> fl.mtime])]

RECURSIVE LoadFiles(_, _, _)
LoadFiles(acc, names, fls) ==
  IF names = <<>> THEN acc
  ELSE LoadFiles(LoadFile(acc, Head(names), fls[Head(names)]), Tail(names), fls)

(* presetMap.set(p.name, p) for each p of items: an existing key keeps its *)
(* position and takes the new value, a new key is appended                 *)
IsFirstSet(seq, i) == \A j \in 1..(i - 1) : seq[j].name # seq[i].name
LastSet(seq, i) ==
  seq[LastOf({j \in i..Len(seq) : seq[j].name = seq[i].name})]
MapInOrder(seq, keys) == [k \in 1..Len(keys) |-> LastSet(seq, keys[k])]
MapValues(seq) ==
  MapInOrder(seq, SelectSeq([i \in 1..Len(seq) |-> i],
                            LAMBDA i : IsFirstSet(seq, i)))
MapSetAll(map, items) == MapValues(map \o items)

(* the merged view of a pass that stays within the cap *)
MergeView(im, all) ==
  IF im = "async" THEN MapSetAll(BUILTIN_PRESETS, all)
  ELSE BUILTIN_PRESETS \o all

NoCache == [k |-> "null"]
Entry(loadedAt, presets, mtimes) ==
  [k |-> "entry", loadedAt |-> loadedAt, presets |-> presets, mtimes |-> mtimes]

Returned(view) == [t |-> "ok", view |-> view]
Thrown == [t |-> "throw"]

(* the end of loadUserPresets: the value returned and the cache left *)
Publish(im, acc, c, t) ==
  IF Len(acc.all) > MAX_PRESETS_TOTAL
  THEN [res |-> Returned(SubSeq(acc.all, 1, MAX_PRESETS_TOTAL)), cache |-> c]
  ELSE LET view == MergeView(im, acc.all)
       IN [res |-> Returned(view), cache |-> Entry(t, view, acc.mtimes)]

(* a loader that returns the built-in presets for a missing directory and  *)
(* leaves the cache as it was                                              *)
loadUserPresets_MissingNotCached(im, d, fls, listing, c, t) ==
  IF d = "missing" THEN [res |-> Returned(BUILTIN_PRESETS), cache |-> c]
  ELSE IF d = "unlistable" THEN [res |-> Thrown, cache |-> c]
  ELSE Publish(im, LoadFiles([all |-> <<>>, mtimes |-> <<>>], listing, fls), c, t)

(* loadUserPresets run without interruption, listing being the .json names *)
(* in the order in which readdir enumerates the directory                  *)
loadUserPresets(im, d, fls, listing, c, t) ==
  IF d = "missing"
  THEN [res |-> Returned(BUILTIN_PRESETS), cache |-> Entry(t, BUILTIN_PRESETS, <<>>)]
  ELSE IF d = "unlistable" THEN [res |-> Thrown, cache |-> c]
  ELSE Publish(im, LoadFiles([all |-> <<>>, mtimes |-> <<>>], listing, fls), c, t)

(* cacheValid *)
StatUnchanged(e, d, fls) ==
  d # "missing" /\ fls[e.file].exists /\ fls[e.file].mtime = e.mtime

(* cacheValid with the age compared by >= : an entry whose age equals the  *)
(* TTL counts as expired                                                   *)
cacheValid_StrictTTL(c, t, TTL_MS, d, fls) ==
  /\ c.k # "null"
  /\ ~(t - c.loadedAt >= TTL_MS)
  /\ \A i \in 1..Len(c.mtimes) : StatUnchanged(c.mtimes[i], d, fls)

(* cacheValid without the loop over the tracked files *)
cacheValid_AgeOnly(c, t, TTL_MS, d, fls) ==
  /\ c.k # "null"
  /\ ~(t - c.loadedAt > TTL_MS)

cacheValid(c, t, TTL_MS, d, fls) ==
  /\ c.k # "null"
  /\ ~(t - c.loadedAt > TTL_MS)
  /\ \A i \in 1..Len(c.mtimes) : StatUnchanged(c.mtimes[i], d, fls)

(* getAllPresets: the result, the cache left and whether the loader ran *)
getAllPresets(im, d, fls, listing, c, t, TTL_MS) ==
  IF cacheValid(c, t, TTL_MS, d, fls)
  THEN [res |-> Returned(c.presets), cache |-> c, ran |-> FALSE]
  ELSE LET r == loadUserPresets(im, d, fls, listing, c, t)
       IN [res |-> r.res, cache |-> r.cache, ran |-> TRUE]

(* Array.prototype.find(p => p.name === name) *)
Find(view, name) ==
  LET hit == {i \in 1..Len(view) : view[i].name = name}
  IN IF hit = {} THEN [t |-> "undefined"]
     ELSE [t |-> "preset", p |-> view[CHOOSE i \in hit : \A j \in hit : i <= j]]

---------------------------------------------------------------------------
(* Inputs of the calls *)
LookupNames == {N_basic, <<"n","o","n","e">>}
TTLs == {1}

---------------------------------------------------------------------------
(* DAV_PROPERTY_PRESETS_DIR.  envDir is the directory the variable names   *)
(* now.  The loader reads PRESETS_DIR, which is bound once, when the       *)
(* module is loaded, to the directory the variable names then: dir and     *)
(* files are the state of that directory.                                  *)
PRESETS_DIR == "property-presets"
TempDir == "test-presets-override"

---------------------------------------------------------------------------
(* The registry with each call run to completion *)
NoFiles == [f \in FileNames |-> Absent]
Idle == [op |-> "none"]

RegInit ==
  /\ impl \in {"async", "sync"}
  /\ ttl \in TTLs
  /\ dir = "missing"
  /\ files = NoFiles
  /\ now = 0
  /\ cache = NoCache
  /\ last = Idle

(* the environment: the clock and the file system *)
Tick ==
  /\ now < MaxTime
  /\ now' = now + 1
  /\ last' = Idle
  /\ UNCHANGED <<impl, ttl, dir, files, cache, valVars, envDir, asyVars>>

MakeDir ==
  /\ dir = "missing"
  /\ dir' = "ok"
  /\ files' = [NoFiles EXCEPT !["notes.txt"] = File(0, "note")]
  /\ last' = Idle
  /\ UNCHANGED <<impl, ttl, now, cache, valVars, envDir, asyVars>>

RemoveDir ==
  /\ dir # "missing"
  /\ dir' = "missing"
  /\ files' = NoFiles
  /\ last' = Idle
  /\ UNCHANGED <<impl, ttl, now, cache, valVars, envDir, asyVars>>

Chmod ==
  /\ dir # "missing"
  /\ dir' = IF dir = "ok" THEN "unlistable" ELSE "ok"
  /\ last' = Idle
  /\ UNCHANGED <<impl, ttl, now, files, cache, valVars, envDir, asyVars>>

WriteFile ==
  /\ dir # "missing"
  /\ \E f \in JsonFileNames : \E text \in TextsOf(f) :
       files' = [files EXCEPT ![f] = File(now, text)]
  /\ last' = Idle
  /\ UNCHANGED <<impl, ttl, dir, now, cache, valVars, envDir, asyVars>>

DeleteFile ==
  /\ \E f \in JsonFileNames :
       /\ files[f].exists
       /\ files' = [files EXCEPT ![f] = Absent]
  /\ last' = Idle
  /\ UNCHANGED <<impl, ttl, dir, now, cache, valVars, envDir, asyVars>>

(* History kept with a call for the properties below.  cleared: the call   *)
(* follows a clearCache that dropped an entry which the validity check     *)
(* would have accepted.  why: what the call found, an empty cache, an      *)
(* entry older than the TTL, a tracked file that vanished or whose         *)
(* modification time differs, or none of these ("hit").                    *)
AfterClear == last.op = "clearCache" /\ last.valid

Found(c, t, TTL_MS, d, fls) ==
  IF c.k = "null" THEN "empty"
  ELSE IF t - c.loadedAt > TTL_MS THEN "ttl"
  ELSE IF \E i \in 1..Len(c.mtimes) :
            d = "missing" \/ ~fls[c.mtimes[i].file].exists THEN "vanished"
  ELSE IF \E i \in 1..Len(c.mtimes) :
            fls[c.mtimes[i].file].mtime # c.mtimes[i].mtime THEN "mtime"
  ELSE "hit"

GetAllPresets ==
  \E listing \in {FilterJson(o) : o \in Listings(files)} :
    \E r \in {getAllPresets(impl, dir, files, listing, cache, now, ttl)} :
       /\ cache' = r.cache
       /\ last' = [op |-> "getAllPresets", ran |-> r.ran, res |-> r.res,
                   cleared |-> AfterClear,
                   why |-> Found(cache, now, ttl, dir, files)]
       /\ UNCHANGED <<impl, ttl, dir, files, now, valVars, envDir, asyVars>>

GetPreset ==
  \E listing \in {FilterJson(o) : o \in Listings(files)} :
    \E r \in {getAllPresets(impl, dir, files, listing, cache, now, ttl)} :
     \E name \in LookupNames :
       /\ cache' = r.cache
       /\ last' = [op |-> "getPreset", name |-> name, ran |-> r.ran,
                   res |-> IF r.res.t = "throw" THEN Thrown
                           ELSE Find(r.res.view, name),
                   cleared |-> AfterClear,
                   why |-> Found(cache, now, ttl, dir, files)]
       /\ UNCHANGED <<impl, ttl, dir, files, now, valVars, envDir, asyVars>>

(* clearCache that assigns nothing *)
ClearCache_KeepsEntry ==
  /\ impl = "async"
  /\ cache' = cache
  /\ last' = [op |-> "clearCache",
              valid |-> cacheValid(cache, now, ttl, dir, files)]
  /\ UNCHANGED <<impl, ttl, dir, files, now, valVars, envDir, asyVars>>

(* clearCache is exported by the asynchronous revision only *)
ClearCache ==
  /\ impl = "async"
  /\ cache' = NoCache
  /\ last' = [op |-> "clearCache",
              valid |-> cacheValid(cache, now, ttl, dir, files)]
  /\ UNCHANGED <<impl, ttl, dir, files, now, valVars, envDir, asyVars>>

---------------------------------------------------------------------------
(* validatePreset applied to parsed JSON values *)
RawNames ==
  {Undefined, JNull, JNum(5), JStr(<<>>), JStr(<<" ">>), JStr(<<"v">>),
   JStr(<<" ","v"," ">>), JStr(<<"a"," ","b">>), JStr(<<"a","@">>),
   JArr(<<JStr(<<"v">>)>>)}
RawElements ==
  <<JNull, JNum(1), JStr(<<"s">>), PropObj(P_getetag),
    JObj([name |-> JStr(<<"n">>)]),
    JObj([namespace |-> JStr(<<"n","o","t","-","a","-","u","r","i">>),
          name |-> JStr(<<"n">>)]),
    JObj([namespace |-> JStr(<<"u","r","n",":","x">>), name |-> JStr(<<"a"," ","b">>)]),
    JObj([namespace |-> JStr(<<"u","r","n",":","x">>), name |-> JStr(<<"a",".","b">>)])>>
RawProperties ==
  {Undefined, JNull, JStr(<<"p">>), JArr(<<>>), JArr(<<JNull, JNum(1)>>),
   JArr(RawElements), JArr(TooManyProps),
   JArr(SubSeq(TooManyProps, 1, MAX_PROPERTIES_PER_PRESET)),
   JArr(SubSeq(TooManyProps, 1, MAX_PROPERTIES_PER_PRESET) \o <<JNull>>)}
RawDescriptions == {Undefined, JNum(3), JStr(<<"text">>)}
RawBuiltins == {Undefined, JBool(TRUE)}

(* an object literal; a field whose value is undefined is left out *)
Field(key, v) == IF v = Undefined THEN <<>> ELSE (key :> v)
RawObject(n, ps, d, b) ==
  JObj(("version" :> JNum(1)) @@ Field("name", n) @@ Field("properties", ps)
       @@ Field("description", d) @@ Field("builtin", b))

RawValues ==
  {JNull, Undefined, JNum(0), JNum(7), JBool(FALSE), JBool(TRUE),
   JStr(<<>>), JStr(<<"v">>), JArr(<<>>), JArr(<<PropObj(P_getetag)>>)}
  \cup {RawObject(n, ps, d, b) : n \in RawNames, ps \in RawProperties,
                                 d \in RawDescriptions, b \in RawBuiltins}

NotRun == [t |-> "none"]

ValInit == vIn \in RawValues /\ vOut = NotRun

Validate ==
  /\ vOut = NotRun
  /\ vOut' = validatePreset(vIn)
  /\ UNCHANGED <<vIn, regVars, envDir, asyVars>>

NextValue ==
  /\ vOut # NotRun
  /\ vIn' \in RawValues
  /\ vOut' = NotRun
  /\ UNCHANGED <<regVars, envDir, asyVars>>

---------------------------------------------------------------------------
(* The asynchronous revision call by call: every await is a point where    *)
(* other calls, clearCache and the file system may run.  A caller is idle, *)
(* inside cacheValid ("check", awaiting the stat of the next tracked       *)
(* file), resuming after cacheValid returned true ("hit"), or inside       *)
(* loadUserPresets ("access", "readdir", "stat", "read").                  *)
Callers == 1..MaxCalls

(* a record kept beside the program.  When clearCache last ran, the calls  *)
(* in calls were inside cacheValid or about to return the cached view and  *)
(* the calls in passes were inside loadUserPresets; entry tells whether    *)
(* the cache entry was assigned by one of those passes; quiet tells        *)
(* whether a file was rewritten without its modification time changing     *)
NoneStale == [calls |-> {}, passes |-> {}, entry |-> FALSE, quiet |-> FALSE]
PublishedBy(p) ==
  [stale EXCEPT !.passes = @ \ {p}, !.entry = p \in stale.passes]
IdleCall ==
  [pc |-> "idle", chk |-> <<>>, todo |-> <<>>, all |-> <<>>, mtimes |-> <<>>,
   res |-> [t |-> "none"]]

(* getAllPresets up to the first await of cacheValid; the callers being    *)
(* alike, they are numbered in the order in which they call                *)
Start ==
  \E p \in Callers :
    /\ procs[p].pc = "idle"
    /\ \A q \in Callers : q < p => procs[q].pc # "idle"
    /\ procs' = [procs EXCEPT ![p] =
         IF cache.k = "null" \/ now - cache.loadedAt > ttl
         THEN [@ EXCEPT !.pc = "access"]
         ELSE IF cache.mtimes = <<>> THEN [@ EXCEPT !.pc = "hit"]
         ELSE [@ EXCEPT !.pc = "check", !.chk = cache.mtimes]]
    /\ UNCHANGED <<regVars, valVars, envDir, hist, stale>>

(* cacheValid resumes with the stat of a tracked file *)
CheckStat ==
  \E p \in Callers :
    /\ procs[p].pc = "check"
    /\ procs' = [procs EXCEPT ![p] =
         IF ~StatUnchanged(Head(procs[p].chk), dir, files)
         THEN [@ EXCEPT !.pc = "access", !.chk = <<>>]
         ELSE IF Tail(procs[p].chk) = <<>>
              THEN [@ EXCEPT !.pc = "hit", !.chk = <<>>]
              ELSE [@ EXCEPT !.chk = Tail(@)]]
    /\ UNCHANGED <<regVars, valVars, envDir, hist, stale>>

(* return cache!.presets *)
Hit ==
  \E p \in Callers :
    /\ procs[p].pc = "hit"
    /\ procs' = [procs EXCEPT ![p] =
         [@ EXCEPT !.pc = "done",
                   !.res = IF cache.k = "null" THEN Thrown
                           ELSE Returned(cache.presets)]]
    /\ UNCHANGED <<regVars, valVars, envDir, hist, stale>>

(* the end of a pass: the cache entry is assigned and the view returned in *)
(* the continuation that handled the last file; hist records the views of  *)
(* the finished passes                                                     *)
Finish(p, acc) ==
  \E r \in {Publish("async", acc, cache, now)} :
    /\ cache' = r.cache
    /\ procs' = [procs EXCEPT ![p] =
         [IdleCall EXCEPT !.pc = "done", !.res = r.res]]
    /\ hist' = hist \cup {r.res.view}
    /\ stale' = IF Len(acc.all) > MAX_PRESETS_TOTAL THEN stale
                ELSE PublishedBy(p)

(* await fs.access(PRESETS_DIR) *)
Access ==
  \E p \in Callers :
    /\ procs[p].pc = "access"
    /\ IF dir = "missing"
       THEN /\ cache' = Entry(now, BUILTIN_PRESETS, <<>>)
            /\ procs' = [procs EXCEPT ![p] =
                 [IdleCall EXCEPT !.pc = "done", !.res = Returned(BUILTIN_PRESETS)]]
            /\ hist' = hist \cup {BUILTIN_PRESETS}
            /\ stale' = PublishedBy(p)
       ELSE /\ procs' = [procs EXCEPT ![p] = [@ EXCEPT !.pc = "readdir"]]
            /\ UNCHANGED <<cache, hist, stale>>
    /\ UNCHANGED <<impl, dir, files, now, ttl, last, valVars, envDir>>

(* await fs.readdir(PRESETS_DIR), filtered *)
Readdir ==
  \E p \in Callers :
    /\ procs[p].pc = "readdir"
    /\ IF dir # "ok"
       THEN /\ procs' = [procs EXCEPT ![p] =
                 [IdleCall EXCEPT !.pc = "done", !.res = Thrown]]
            /\ UNCHANGED <<cache, hist, stale>>
       ELSE \E listing \in {FilterJson(o) : o \in Listings(files)} :
              IF listing = <<>>
              THEN Finish(p, [all |-> <<>>, mtimes |-> <<>>])
              ELSE /\ procs' = [procs EXCEPT ![p] =
                        [@ EXCEPT !.pc = "stat", !.todo = listing]]
                   /\ UNCHANGED <<cache, hist, stale>>
    /\ UNCHANGED <<impl, dir, files, now, ttl, last, valVars, envDir>>

(* a pass that assigns the cache after every file *)
NextFile_PublishesEarly(p, acc) ==
  IF Tail(procs[p].todo) = <<>> THEN Finish(p, acc)
  ELSE /\ procs' = [procs EXCEPT ![p] =
            [@ EXCEPT !.pc = "stat", !.todo = Tail(@),
                      !.all = acc.all, !.mtimes = acc.mtimes]]
       /\ cache' = Entry(now, MergeView("async", acc.all), acc.mtimes)
       /\ UNCHANGED <<hist, stale>>

(* the pass after the file at the head of todo has been dealt with *)
NextFile(p, acc) ==
  IF Tail(procs[p].todo) = <<>> THEN Finish(p, acc)
  ELSE /\ procs' = [procs EXCEPT ![p] =
            [@ EXCEPT !.pc = "stat", !.todo = Tail(@),
                      !.all = acc.all, !.mtimes = acc.mtimes]]
       /\ UNCHANGED <<cache, hist, stale>>

(* await fs.stat(full); a file that vanished throws into the catch *)
Stat ==
  \E p \in Callers :
    /\ procs[p].pc = "stat"
    /\ LET f == Head(procs[p].todo)
       IN IF dir = "missing" \/ ~files[f].exists
          THEN NextFile(p, [all |-> procs[p].all, mtimes |-> procs[p].mtimes])
          ELSE /\ procs' = [procs EXCEPT ![p] =
                    [@ EXCEPT !.pc = "read",
                              !.mtimes = Append(@, [file |-> f,
                                                    mtime |-> files[f].mtime])]]
               /\ UNCHANGED <<cache, hist, stale>>
    /\ UNCHANGED <<impl, dir, files, now, ttl, last, valVars, envDir>>

(* await fs.readFile(full), then JSON.parse and the validation of the      *)
(* entries, which run without suspension                                   *)
Read ==
  \E p \in Callers :
    /\ procs[p].pc = "read"
    /\ LET f == Head(procs[p].todo)
       IN IF dir = "missing" \/ ~files[f].exists
          THEN NextFile(p, [all |-> procs[p].all, mtimes |-> procs[p].mtimes])
          ELSE NextFile(p, [all |-> procs[p].all \o PushedOf[files[f].text],
                            mtimes |-> procs[p].mtimes])
    /\ UNCHANGED <<impl, dir, files, now, ttl, last, valVars, envDir>>

---------------------------------------------------------------------------
Init ==
  /\ RegInit
  /\ vIn = JNull /\ vOut = NotRun
  /\ procs = <<>> /\ hist = {} /\ envDir = PRESETS_DIR /\ stale = NoneStale

Next ==
  \/ Tick \/ MakeDir \/ RemoveDir \/ Chmod \/ WriteFile \/ DeleteFile
  \/ GetAllPresets \/ GetPreset \/ ClearCache

Spec == Init /\ [][Next]_vars

(* the environment of the interleaved callers: b.json is rewritten, which  *)
(* gives it a later modification time                                      *)
EditFile ==
  /\ files["b.json"].mtime < MaxTime
  /\ \E text \in TextsOf("b.json") :
       files' = [files EXCEPT !["b.json"] = File(files["b.json"].mtime + 1, text)]
  /\ UNCHANGED <<impl, ttl, dir, now, cache, last, valVars, envDir, asyVars>>

(* clearCache, called between two steps of the callers *)
Invalidate ==
  /\ cache' = NoCache
  /\ UNCHANGED <<impl, ttl, dir, files, now, last, valVars, envDir, asyVars>>

(* the asynchronous revision with interleaved callers, each making one    *)
(* call, over a directory that holds both files; the cache is empty or     *)
(* holds the entry of an earlier load of these files.  The calls fall      *)
(* within one TTL: the clock stands still                                  *)
AsyncFiles ==
  [NoFiles EXCEPT !["a.json"] = File(0, "mixed"),
                  !["b.json"] = File(0, "override")]
EarlierLoad ==
  loadUserPresets("async", "ok", AsyncFiles, <<"a.json", "b.json">>, NoCache, 0)

InitAsync ==
  /\ impl = "async" /\ ttl \in TTLs /\ dir = "ok"
  /\ files = AsyncFiles
  /\ now = 0 /\ last = Idle
  /\ vIn = JNull /\ vOut = NotRun
  /\ procs = [p \in Callers |-> IdleCall]
  /\ envDir = PRESETS_DIR /\ stale = NoneStale
  /\ \/ cache = NoCache /\ hist = {}
     \/ cache = EarlierLoad.cache /\ hist = {EarlierLoad.res.view}

NextAsync ==
  \/ Start \/ CheckStat \/ Hit \/ Access \/ Readdir \/ Stat \/ Read
  \/ EditFile \/ Invalidate

SpecAsync == InitAsync /\ [][NextAsync]_vars

(* the same callers with the invalidations recorded: clearCache notes the  *)
(* calls that are under way when it runs                                   *)
InvalidateRecorded ==
  /\ cache' = NoCache
  /\ stale' = [calls |-> {p \in Callers : procs[p].pc \in {"check", "hit"}},
               passes |-> {p \in Callers :
                             procs[p].pc \in {"access", "readdir", "stat", "read"}},
               entry |-> FALSE, quiet |-> stale.quiet]
  /\ UNCHANGED <<impl, ttl, dir, files, now, last, valVars, envDir, procs, hist>>

NextClear ==
  \/ Start \/ CheckStat \/ Hit \/ Access \/ Readdir \/ Stat \/ Read
  \/ EditFile \/ InvalidateRecorded

SpecClear == InitAsync /\ [][NextClear]_vars

(* the same callers over a file system in which a write can leave the      *)
(* modification time as it was: a second write within the granularity of   *)
(* the clock of the file system, or a copy that preserves the time         *)
RewriteFile ==
  /\ ~stale.quiet
  /\ \E text \in TextsOf("b.json") \ {files["b.json"].text} :
       files' = [files EXCEPT !["b.json"] = File(files["b.json"].mtime, text)]
  /\ stale' = [stale EXCEPT !.quiet = TRUE]
  /\ UNCHANGED <<impl, ttl, dir, now, cache, last, valVars, envDir, procs, hist>>

NextEdit ==
  \/ Start \/ CheckStat \/ Hit \/ Access \/ Readdir \/ Stat \/ Read
  \/ EditFile \/ RewriteFile

SpecEdit == InitAsync /\ [][NextEdit]_vars

(* one load of a directory whose files are drawn from the texts of the     *)
(* model, followed by calls served from the cache it leaves                *)
LoadTexts(f) ==
  IF f = "a.json" THEN TextsOf(f) \cup {"brim", "flagged"} ELSE TextsOf(f)
LoadDirs ==
  {fls \in [FileNames -> {Absent} \cup {File(0, id) : id \in TextIds}] :
     \A f \in FileNames : fls[f].exists => fls[f].text \in LoadTexts(f)}

InitLoad ==
  /\ impl \in {"async", "sync"} /\ ttl \in TTLs /\ dir = "ok"
  /\ files \in LoadDirs
  /\ now = 0 /\ cache = NoCache /\ last = Idle
  /\ vIn = JNull /\ vOut = NotRun
  /\ procs = <<>> /\ hist = {} /\ envDir = PRESETS_DIR /\ stale = NoneStale

NextLoad == GetAllPresets \/ GetPreset

SpecLoad == InitLoad /\ [][NextLoad]_vars

(* validatePreset alone, the registry left in its initial state *)
InitValidate ==
  /\ ValInit
  /\ impl = "async" /\ ttl = 1 /\ dir = "missing" /\ files = NoFiles
  /\ now = 0 /\ cache = NoCache /\ last = Idle
  /\ procs = <<>> /\ hist = {} /\ envDir = PRESETS_DIR /\ stale = NoneStale

NextValidate == Validate \/ NextValue

SpecValidate == InitValidate /\ [][NextValidate]_vars

---------------------------------------------------------------------------
(* mergeProperties.  A property is a record of two strings; extra is the   *)
(* optional argument, a JSON array or absent.                              *)
MaxMerge == 2

(* `${p.namespace}::${p.name}` *)
Key(p) == p.namespace \o <<":", ":">> \o p.name

(* extra || [] *)
ExtraOr(extra) == IF Truthy(extra) THEN extra.a ELSE <<>>

(* for (const p of all) { if (!seen.has(key)) { seen.add(key); dedup.push(p) } } *)
RECURSIVE MergeLoop(_, _, _)
MergeLoop(all, seen, dedup) ==
  IF all = <<>> THEN dedup
  ELSE IF Key(Head(all)) \in seen THEN MergeLoop(Tail(all), seen, dedup)
  ELSE MergeLoop(Tail(all), seen \cup {Key(Head(all))}, Append(dedup, Head(all)))

(* a merge that puts the elements of extra before those of base *)
mergeProperties_ExtraFirst(base, extra) ==
  MergeLoop(ExtraOr(extra) \o base, {}, <<>>)

(* a merge that drops nothing *)
mergeProperties_NoDedup(base, extra) == base \o ExtraOr(extra)

mergeProperties(base, extra) == MergeLoop(base \o ExtraOr(extra), {}, <<>>)

(* the property lists and the optional second arguments of the model: two  *)
(* DAV: properties and two properties that differ in namespace and in name *)
(* while their keys are the same string, both with a namespace that        *)
(* new URL parses and a name of the allowed characters                     *)
P_colonName == Prop(<<"u", ":">>, <<":", ":", "x">>)
P_colonNamespace == Prop(<<"u", ":", ":", ":">>, <<"x">>)
MergeProps == {P_resourcetype, P_getetag, P_colonName, P_colonNamespace}
ListsOf(S, n) == UNION {[1..k -> S] : k \in 0..n}
MergeInputs ==
  [base : ListsOf(MergeProps, MaxMerge),
   extra : {Undefined, JNull} \cup {JArr(l) : l \in ListsOf(MergeProps, MaxMerge)},
   again : {FALSE}]

Merged(list) == [t |-> "merged", list |-> list]

Merge ==
  /\ vOut = NotRun
  /\ vOut' = Merged(mergeProperties(vIn.base, vIn.extra))
  /\ UNCHANGED <<vIn, regVars, envDir, asyVars>>

(* the result is merged with the same second argument once more *)
Remerge ==
  /\ vOut # NotRun /\ ~vIn.again
  /\ vIn' = [base |-> vOut.list, extra |-> vIn.extra, again |-> TRUE]
  /\ vOut' = NotRun
  /\ UNCHANGED <<regVars, envDir, asyVars>>

InitMerge ==
  /\ vIn \in MergeInputs /\ vOut = NotRun
  /\ impl = "async" /\ ttl = 1 /\ dir = "missing" /\ files = NoFiles
  /\ now = 0 /\ cache = NoCache /\ last = Idle
  /\ procs = <<>> /\ hist = {} /\ envDir = PRESETS_DIR /\ stale = NoneStale

NextMerge == Merge \/ Remerge

SpecMerge == InitMerge /\ [][NextMerge]_vars

---------------------------------------------------------------------------
(* generatePropfindXml.  The body is a sequence of pieces: a literal part  *)
(* of the template is one piece, an interpolated value contributes its     *)
(* characters one by one.  The revisions differ in the xmlns attribute:    *)
(* the blocking one writes escapeXmlAttribute(ns), the other one ns.       *)
MaxProps == 3

(* str.replace(/c/g, entity) *)
RECURSIVE ReplaceAll(_, _, _)
ReplaceAll(s, c, entity) ==
  IF s = <<>> THEN <<>>
  ELSE (IF Head(s) = c THEN entity ELSE <<Head(s)>>) \o ReplaceAll(Tail(s), c, entity)

escapeXmlAttribute(value) ==
  ReplaceAll(ReplaceAll(ReplaceAll(ReplaceAll(ReplaceAll(value,
    "&", <<"&","a","m","p",";">>),
    "<", <<"&","l","t",";">>),
    ">", <<"&","g","t",";">>),
    "\"", <<"&","q","u","o","t",";">>),
    "'", <<"&","a","p","o","s",";">>)

(* Array.from(new Set(properties.map(p => p.namespace))): the distinct     *)
(* namespaces in the order of their first appearance                       *)
FirstSeen(properties) ==
  SelectSeq([i \in 1..Len(properties) |-> i],
            LAMBDA i : \A j \in 1..(i - 1) :
                         properties[j].namespace # properties[i].namespace)
NamespacesAt(properties, idx) ==
  [k \in 1..Len(idx) |-> properties[idx[k]].namespace]
Namespaces(properties) == NamespacesAt(properties, FirstSeen(properties))

(* prefixMap, a plain object: the own properties in the order of their     *)
(* creation.  An assignment of a string to the key __proto__ reaches the   *)
(* setter of Object.prototype, which ignores it; a read of that key gives  *)
(* Object.prototype, which the template writes as [object Object].         *)
ProtoKey == <<"_","_","p","r","o","t","o","_","_">>
ObjectString == <<"[","o","b","j","e","c","t"," ","O","b","j","e","c","t","]">>
ObjSet(obj, key, val) ==
  IF key = ProtoKey THEN obj ELSE Append(obj, [ns |-> key, prefix |-> val])
ObjGet(obj, key) ==
  IF \E i \in 1..Len(obj) : obj[i].ns = key
  THEN obj[CHOOSE i \in 1..Len(obj) : obj[i].ns = key].prefix
  ELSE IF key = ProtoKey THEN ObjectString
  ELSE <<"u","n","d","e","f","i","n","e","d">>

(* for (const ns of namespaces) { ... prefixMap[ns] = `N${counter++}` } *)
RECURSIVE PrefixLoop(_, _, _)
PrefixLoop(namespaces, counter, prefixMap) ==
  IF namespaces = <<>> THEN prefixMap
  ELSE IF Head(namespaces) = NsDAV
       THEN PrefixLoop(Tail(namespaces), counter,
                       ObjSet(prefixMap, NsDAV, <<"D">>))
       ELSE PrefixLoop(Tail(namespaces), counter + 1,
                       ObjSet(prefixMap, Head(namespaces),
                              <<"N">> \o DigitsOf(counter)))
PrefixMapOf(properties) == PrefixLoop(Namespaces(properties), 0, <<>>)

(* Object.entries(prefixMap): the keys that are array indices in ascending *)
(* numeric order, then the other keys in the order of their creation       *)
IsArrayIndex(s) ==
  /\ s # <<>>
  /\ \A i \in 1..Len(s) : s[i] \in Digit
  /\ Len(s) = 1 \/ s[1] # "0"
DigitVal(c) == CHOOSE d \in 0..9 : DigitSeq[d + 1] = c
RECURSIVE NumOf(_)
NumOf(s) ==
  IF s = <<>> THEN 0
  ELSE NumOf(SubSeq(s, 1, Len(s) - 1)) * 10 + DigitVal(s[Len(s)])
IndexEntries(obj) == SelectSeq(obj, LAMBDA e : IsArrayIndex(e.ns))
OtherEntries(obj) == SelectSeq(obj, LAMBDA e : ~IsArrayIndex(e.ns))
Ascending(es) ==
  [k \in 1..Len(es) |->
     es[CHOOSE i \in 1..Len(es) :
          Cardinality({j \in 1..Len(es) : NumOf(es[j].ns) <= NumOf(es[i].ns)}) = k]]
ObjectEntries(obj) == Ascending(IndexEntries(obj)) \o OtherEntries(obj)

(* Array.prototype.join *)
RECURSIVE Join(_, _)
Join(parts, sep) ==
  IF parts = <<>> THEN <<>>
  ELSE IF Len(parts) = 1 THEN Head(parts)
  ELSE Head(parts) \o sep \o Join(Tail(parts), sep)

(* `xmlns:${prefix}="${...}"` *)
XmlnsValue(im, ns) == IF im = "sync" THEN escapeXmlAttribute(ns) ELSE ns
XmlnsDecl(im, e) ==
  <<"xmlns:">> \o e.prefix \o <<"=\"">> \o XmlnsValue(im, e.ns) \o <<"\"">>
XmlnsDecls(im, entries) ==
  Join([k \in 1..Len(entries) |-> XmlnsDecl(im, entries[k])], <<" ">>)

(* `<${prefixMap[p.namespace]}:${p.name}/>` *)
PropLine(prefixMap, p) ==
  <<"<">> \o ObjGet(prefixMap, p.namespace) \o <<":">> \o p.name \o <<"/>">>
PropLines(prefixMap, properties) ==
  Join([k \in 1..Len(properties) |-> PropLine(prefixMap, properties[k])],
       <<"\n    ">>)

XmlHead == "<?xml version=\"1.0\" encoding=\"utf-8\"?>\n<D:propfind "
XmlOpenProp == ">\n  <D:prop>\n    "
XmlTail == "\n  </D:prop>\n</D:propfind>"
Assemble(im, prefixMap, properties) ==
  <<XmlHead>> \o XmlnsDecls(im, ObjectEntries(prefixMap)) \o <<XmlOpenProp>>
  \o PropLines(prefixMap, properties) \o <<XmlTail>>
generatePropfindXml(im, properties) ==
  Assemble(im, PrefixMapOf(properties), properties)

(* the property lists of the model: namespaces DAV:, a URN, a URI with the *)
(* five characters that the escape replaces, the key __proto__ and an      *)
(* array index                                                             *)
NsUrn == <<"u","r","n",":","a">>
NsSpecial == <<"h",":","&","<",">","\"","'">>
NsIndex == <<"7">>
XmlProps ==
  {P_getetag, Prop(NsUrn, <<"x">>), Prop(NsSpecial, <<"y">>),
   Prop(ProtoKey, <<"x">>), Prop(NsIndex, <<"z">>)}
XmlInputs == ListsOf(XmlProps, MaxProps)

Generated(text) == [t |-> "xml", text |-> text]

GenerateXml ==
  /\ vOut = NotRun
  /\ vOut' = Generated(generatePropfindXml(impl, vIn))
  /\ UNCHANGED <<vIn, regVars, envDir, asyVars>>

NextList ==
  /\ vOut # NotRun
  /\ vIn' \in XmlInputs
  /\ vOut' = NotRun
  /\ UNCHANGED <<regVars, envDir, asyVars>>

InitXml ==
  /\ vIn \in XmlInputs /\ vOut = NotRun
  /\ impl \in {"async", "sync"} /\ ttl = 1 /\ dir = "missing" /\ files = NoFiles
  /\ now = 0 /\ cache = NoCache /\ last = Idle
  /\ procs = <<>> /\ hist = {} /\ envDir = PRESETS_DIR /\ stale = NoneStale

NextXml == GenerateXml \/ NextList

SpecXml == InitXml /\ [][NextXml]_vars

---------------------------------------------------------------------------
(* The server (server.ts with the preset tools).  It calls getPreset and   *)
(* getAllPresets without await, which is the blocking revision of the      *)
(* registry.  A handler runs to completion: nothing else runs between its  *)
(* calls.                                                                  *)

(* getPreset: what getAllPresets returned, and the preset found in it *)
GetPresetOf(r, name) ==
  [res |-> IF r.res.t = "throw" THEN Thrown ELSE Find(r.res.view, name),
   all |-> r.res, cache |-> r.cache]
getPreset(im, d, fls, listing, c, t, TTL_MS, name) ==
  GetPresetOf(getAllPresets(im, d, fls, listing, c, t, TTL_MS), name)

(* the available names of a result that only knows the built-in presets *)
Available_BuiltinsOnly(view) ==
  [i \in 1..Len(BUILTIN_PRESETS) |-> BUILTIN_PRESETS[i].name]

(* getAllPresets().map(p => p.name) *)
Available(view) == [i \in 1..Len(view) |-> view[i].name]

(* the results of the handlers *)
NotFoundResult(available) ==
  [t |-> "result", isError |-> TRUE, what |-> "notFound", available |-> available]
PresetResult(p) == [t |-> "result", isError |-> FALSE, what |-> "preset", preset |-> p]
ErrorResult(message) ==
  [t |-> "result", isError |-> TRUE, what |-> "error", message |-> message]
ResponseResult(usedPreset) ==
  [t |-> "result", isError |-> FALSE, what |-> "response", usedPreset |-> usedPreset]
NotSent == [t |-> "none"]
Sent(method, body) == [t |-> "request", method |-> method, body |-> body]

(* the branch `if (!preset)`: r2 is the second call, getAllPresets() *)
NotFoundOf(r2) ==
  IF r2.res.t = "throw" THEN [resp |-> Thrown, cache |-> r2.cache]
  ELSE [resp |-> NotFoundResult(Available(r2.res.view)), cache |-> r2.cache]
NotFound(im, d, fls, listing, c, t, TTL_MS) ==
  NotFoundOf(getAllPresets(im, d, fls, listing, c, t, TTL_MS))

(* the handler of get_property_preset, g being what getPreset(name) gave *)
ToolOutcome(im, d, fls, listing, t, TTL_MS, g) ==
  IF g.res.t = "throw" THEN [resp |-> Thrown, cache |-> g.cache]
  ELSE IF g.res.t = "undefined"
       THEN NotFound(im, d, fls, listing, g.cache, t, TTL_MS)
  ELSE [resp |-> PresetResult(g.res.p), cache |-> g.cache]

ToolNames == LookupNames \cup {N_x}

GetPropertyPreset ==
  \E listing \in {FilterJson(o) : o \in Listings(files)} :
    \E name \in ToolNames :
      \E g \in {getPreset(impl, dir, files, listing, cache, now, ttl, name)} :
        \E o \in {ToolOutcome(impl, dir, files, listing, now, ttl, g)} :
          /\ cache' = o.cache
          /\ last' = [op |-> "get_property_preset", name |-> name, looked |-> TRUE,
                      all |-> g.all, found |-> g.res, resp |-> o.resp,
                      sent |-> NotSent]
          /\ UNCHANGED <<impl, ttl, dir, files, now, valVars, envDir, asyVars>>

(* the handler of list_property_presets *)
Descriptor(p) ==
  [name |-> p.name, description |-> p.description,
   propertyCount |-> Len(p.properties), builtin |-> p.builtin]
PresetsResult(view) ==
  [t |-> "result", isError |-> FALSE, what |-> "presets",
   presets |-> [i \in 1..Len(view) |-> Descriptor(view[i])]]
ListOutcome(r) == IF r.res.t = "throw" THEN Thrown ELSE PresetsResult(r.res.view)

ListPropertyPresets ==
  \E listing \in {FilterJson(o) : o \in Listings(files)} :
    \E r \in {getAllPresets(impl, dir, files, listing, cache, now, ttl)} :
      /\ cache' = r.cache
      /\ last' = [op |-> "list_property_presets", looked |-> FALSE,
                  all |-> r.res, resp |-> ListOutcome(r), sent |-> NotSent]
      /\ UNCHANGED <<impl, ttl, dir, files, now, valVars, envDir, asyVars>>

(* handleDavRequest.  configured: DAV_SERVER_URL is set and a URL; net:    *)
(* whether fetch resolves.  A throw inside the try block becomes an error  *)
(* result; fetch throws before it sends when a GET request has a body.     *)
Caught(o) == IF o.resp.t = "throw" THEN ErrorResult("thrown") ELSE o.resp

Fetch(args, body, net) ==
  IF args.method = "GET" /\ body # Undefined
  THEN [resp |-> ErrorResult("Request with GET/HEAD method cannot have body"),
        sent |-> NotSent]
  ELSE IF net = "ok"
  THEN [resp |-> ResponseResult(IF Truthy(args.preset) THEN args.preset ELSE Undefined),
        sent |-> Sent(args.method, body)]
  ELSE [resp |-> ErrorResult("fetch failed"), sent |-> Sent(args.method, body)]

(* a body in which the body of the caller wins over the preset *)
PresetBody_CallerBodyWins(args, p) ==
  IF args.body # Undefined THEN args.body
  ELSE JStr(generatePropfindXml("sync", mergeProperties(p.properties, args.additionalProperties)))

PresetBody(args, p) ==
  JStr(generatePropfindXml("sync", mergeProperties(p.properties, args.additionalProperties)))

UsesPreset(args) == args.method = "PROPFIND" /\ Truthy(args.preset)

(* a preset branch whose merge appends the additional properties to the    *)
(* list of the preset, which is the list the cache entry holds             *)
MergedInPlace(c, name, extra) ==
  IF c.k = "null" THEN c
  ELSE [c EXCEPT !.presets =
          [i \in 1..Len(c.presets) |->
             IF c.presets[i].name = name
             THEN [c.presets[i] EXCEPT !.properties = mergeProperties(@, extra)]
             ELSE c.presets[i]]]
WithPreset_MergesInPlace(args, net, g, nf) ==
  IF g.res.t = "throw"
  THEN [resp |-> ErrorResult("thrown"), sent |-> NotSent, cache |-> g.cache]
  ELSE IF g.res.t = "undefined"
       THEN [resp |-> Caught(nf), sent |-> NotSent, cache |-> nf.cache]
  ELSE [resp |-> Fetch(args, PresetBody(args, g.res.p), net).resp,
        sent |-> Fetch(args, PresetBody(args, g.res.p), net).sent,
        cache |-> MergedInPlace(g.cache, g.res.p.name, args.additionalProperties)]

(* a preset branch that goes on to fetch with the body of the caller when  *)
(* the preset is unknown                                                   *)
WithPreset_FallsThrough(args, net, g, nf) ==
  IF g.res.t = "throw"
  THEN [resp |-> ErrorResult("thrown"), sent |-> NotSent, cache |-> g.cache]
  ELSE IF g.res.t = "undefined"
       THEN [resp |-> Fetch(args, args.body, net).resp,
             sent |-> Fetch(args, args.body, net).sent,
             cache |-> g.cache]
  ELSE [resp |-> Fetch(args, PresetBody(args, g.res.p), net).resp,
        sent |-> Fetch(args, PresetBody(args, g.res.p), net).sent,
        cache |-> g.cache]

(* the preset branch, g being what getPreset(args.preset) gave and nf the *)
(* branch `if (!preset)`                                                   *)
WithPreset(args, net, g, nf) ==
  IF g.res.t = "throw"
  THEN [resp |-> ErrorResult("thrown"), sent |-> NotSent, cache |-> g.cache]
  ELSE IF g.res.t = "undefined"
       THEN [resp |-> Caught(nf), sent |-> NotSent, cache |-> nf.cache]
  ELSE [resp |-> Fetch(args, PresetBody(args, g.res.p), net).resp,
        sent |-> Fetch(args, PresetBody(args, g.res.p), net).sent,
        cache |-> g.cache]

NoLookup == [res |-> [t |-> "none"], all |-> [t |-> "none"]]

PresetNames == {N_basic, N_x, <<"n","o","n","e">>}
(* a property as a caller can pass it: two strings, the name not one that  *)
(* the validator of the presets would keep                                 *)
P_markup == Prop(NsDAV, <<"a", "/", ">", "<", "b">>)
DavArgs ==
  [method : {"PROPFIND", "GET"},
   preset : {Undefined, JStr(<<>>)} \cup {JStr(n) : n \in PresetNames},
   additionalProperties :
     {Undefined, JArr(<<Prop(NsSpecial, <<"y">>)>>), JArr(<<P_markup>>)},
   body : {Undefined, JStr(<<"b">>)}]

DavRequestUnconfigured ==
  /\ \E args \in DavArgs :
       last' = [op |-> "dav_request", name |-> args.preset, args |-> args,
                looked |-> FALSE,
                all |-> NoLookup.all, found |-> NoLookup.res,
                resp |-> ErrorResult("DAV_SERVER_URL environment variable is not set"),
                sent |-> NotSent]
  /\ UNCHANGED <<impl, ttl, dir, files, now, cache, valVars, envDir, asyVars>>

DavRequestPlain ==
  /\ \E args \in DavArgs : \E net \in {"ok", "fail"} :
       /\ ~UsesPreset(args)
       /\ last' = [op |-> "dav_request", name |-> args.preset, args |-> args,
                   looked |-> FALSE,
                   all |-> NoLookup.all, found |-> NoLookup.res,
                   resp |-> Fetch(args, args.body, net).resp,
                   sent |-> Fetch(args, args.body, net).sent]
  /\ UNCHANGED <<impl, ttl, dir, files, now, cache, valVars, envDir, asyVars>>

DavRequestPreset ==
  \E listing \in {FilterJson(o) : o \in Listings(files)} :
    \E name \in PresetNames :
      \E g \in {getPreset(impl, dir, files, listing, cache, now, ttl, name)} :
        \E nf \in {NotFound(impl, dir, files, listing, g.cache, now, ttl)} :
          \E args \in DavArgs : \E net \in {"ok", "fail"} :
            /\ UsesPreset(args) /\ args.preset = JStr(name)
            /\ \E o \in {WithPreset(args, net, g, nf)} :
                 /\ cache' = o.cache
                 /\ last' = [op |-> "dav_request", name |-> args.preset,
                             args |-> args, looked |-> TRUE,
                             all |-> g.all, found |-> g.res, resp |-> o.resp,
                             sent |-> o.sent]
            /\ UNCHANGED <<impl, ttl, dir, files, now, valVars, envDir, asyVars>>

(* the directories of the server: those of a load, without the file that  *)
(* holds exactly MAX_PRESETS_TOTAL presets and without the file that is no *)
(* .json file, which the loader never opens                                *)
ServerDirs ==
  {fls \in LoadDirs :
     /\ fls["a.json"].exists => fls["a.json"].text # "brim"
     /\ ~fls["notes.txt"].exists}

InitServer ==
  /\ impl = "sync" /\ ttl \in TTLs /\ dir \in {"ok", "unlistable"}
  /\ files \in ServerDirs
  /\ now = 0 /\ cache = NoCache /\ last = Idle
  /\ vIn = JNull /\ vOut = NotRun
  /\ procs = <<>> /\ hist = {} /\ envDir = PRESETS_DIR /\ stale = NoneStale

NextServer ==
  \/ ListPropertyPresets \/ GetPropertyPreset
  \/ DavRequestUnconfigured \/ DavRequestPlain \/ DavRequestPreset

SpecServer == InitServer /\ [][NextServer]_vars

---------------------------------------------------------------------------
(* The registry configured with DAV_PROPERTY_PRESETS_TTL_MS=0 *)
InitZero ==
  /\ impl \in {"async", "sync"} /\ ttl = 0
  /\ dir = "missing" /\ files = NoFiles
  /\ now = 0 /\ cache = NoCache /\ last = Idle
  /\ vIn = JNull /\ vOut = NotRun
  /\ procs = <<>> /\ hist = {} /\ envDir = PRESETS_DIR /\ stale = NoneStale

SpecZero == InitZero /\ [][Next]_vars

---------------------------------------------------------------------------
(* The registry of a process that sets DAV_PROPERTY_PRESETS_DIR while it   *)
(* runs, as testUserPresetOverride does: the variable names                *)
(* TempDir, which holds the file of TempFiles, or again the first          *)
(* directory.                                                              *)
TempFiles == [NoFiles EXCEPT !["b.json"] = File(0, "override")]

SetEnv ==
  /\ envDir' = IF envDir = PRESETS_DIR THEN TempDir ELSE PRESETS_DIR
  /\ last' = Idle
  /\ UNCHANGED <<impl, ttl, dir, files, now, cache, valVars, asyVars>>

NextEnv ==
  \/ Tick \/ MakeDir \/ RemoveDir \/ Chmod \/ WriteFile \/ DeleteFile
  \/ GetAllPresets \/ GetPreset \/ ClearCache \/ SetEnv

SpecEnv == Init /\ [][NextEnv]_vars

---------------------------------------------------------------------------
(* Properties *)

(* the view a getAllPresets call has just returned *)
ReturnedView == last.op = "getAllPresets" /\ last.res.t = "ok"

(* the valid candidates of the .json files as they are now: every root or  *)
(* array entry that validatePreset accepts                                 *)
CandidatesOfText(text) ==
  IF ~text.wf THEN {}
  ELSE LET entries == IF text.v.k = "array" THEN text.v.a ELSE <<text.v>>
       IN {validatePreset(entries[i]).p :
             i \in {j \in 1..Len(entries) : validatePreset(entries[j]).t = "ok"}}
CandidatesTable == [id \in TextIds |-> CandidatesOfText(TextOf(id))]
CandidatesOfFile(f) ==
  IF dir = "ok" /\ files[f].exists THEN CandidatesTable[files[f].text] ELSE {}
Candidates == UNION {CandidatesOfFile(f) : f \in JsonFileNames}
InView(view, name) == \E i \in 1..Len(view) : view[i].name = name

(* C1: the view returned by getAllPresets never holds two presets with the *)
(* same name                                                               *)
C1_NoDuplicateNames ==
  ReturnedView =>
    \A i, j \in 1..Len(last.res.view) :
      i # j => last.res.view[i].name # last.res.view[j].name

(* C2: when a user file defines a valid preset named like a built-in, a    *)
(* getPreset of that name that refreshed the cache returns the user        *)
(* preset, with its description and its properties                         *)
C2_UserPresetOverrides ==
  ( /\ last.op = "getPreset" /\ last.ran /\ last.res.t # "throw"
    /\ last.name \in BuiltinNames
    /\ \E c \in Candidates : c.name = last.name )
  => /\ last.res.t = "preset"
     /\ \E c \in Candidates :
          /\ c.name = last.name
          /\ last.res.p.description = c.description
          /\ last.res.p.properties = c.properties

(* C3: every view returned by getAllPresets holds, for each built-in name, *)
(* a preset of that name: the built-in itself or a user preset of the name *)
C3_BuiltinsPresent ==
  ReturnedView =>
    \A b \in 1..Len(BUILTIN_PRESETS) :
      \E i \in 1..Len(last.res.view) :
        /\ last.res.view[i].name = BUILTIN_PRESETS[b].name
        /\ \/ last.res.view[i] = BUILTIN_PRESETS[b]
           \/ \E c \in Candidates : last.res.view[i] = c

(* C9: validatePreset never throws; it returns a preset or null            *)
C9_ValidateNeverThrows == vOut.t \in {"none", "ok", "null"}

(* C10: in a file whose root is an array, every valid candidate appears in *)
(* the loaded view, whatever candidate before or after it is invalid       *)
(* (stated for loads that stay within the cap)                             *)
C10_InvalidSkippedAlone ==
  ( /\ ReturnedView /\ last.ran /\ dir = "ok"
    /\ Cardinality(Candidates) + Len(BUILTIN_PRESETS) <= MAX_PRESETS_TOTAL )
  => \A f \in JsonFileNames : \A c \in CandidatesOfFile(f) :
       InView(last.res.view, c.name)

(* the conditions of the validity check, on the state before a call *)
WithinTTL == cache.k = "entry" /\ now - cache.loadedAt <= ttl
Tracked == {cache.mtimes[i] : i \in 1..Len(cache.mtimes)}
Vanished(e) == dir = "missing" \/ ~files[e.file].exists
Modified(e) == ~Vanished(e) /\ files[e.file].mtime # e.mtime
(* the step is a getAllPresets call, or any of the two calls *)
GetAllStep == last'.op = "getAllPresets"
CallStep == last'.op \in {"getAllPresets", "getPreset"}
(* the cached presets that are no built-in and that no file holds now *)
GoneNames ==
  {cache.presets[i].name : i \in 1..Len(cache.presets)}
    \ (BuiltinNames \cup {c.name : c \in Candidates})
WithinCap == Cardinality(Candidates) + Len(BUILTIN_PRESETS) <= MAX_PRESETS_TOTAL
(* no valid preset of the files as they are now is in the cached view *)
AllNew == \A c \in Candidates : ~InView(cache.presets, c.name)

(* C4: with a populated cache no older than the TTL and every tracked file *)
(* present with its recorded modification time, getAllPresets returns the  *)
(* cached view, does not run the loader and leaves the entry unchanged     *)
C4_CacheHit ==
  [][ (GetAllStep /\ WithinTTL /\ \A e \in Tracked : ~Vanished(e) /\ ~Modified(e))
      => /\ ~last'.ran
         /\ last'.res = Returned(cache.presets)
         /\ cache' = cache ]_vars

C4_Witness ==
  /\ last.op = "getAllPresets" /\ ~last.ran /\ last.why = "hit"
  /\ cache.k = "entry" /\ cache.mtimes # <<>>
  /\ now = cache.loadedAt + ttl
  /\ last.res.view = cache.presets

(* C5: when the modification time of a tracked file differs from the       *)
(* recorded one, the next getAllPresets reloads within the TTL and its     *)
(* view reflects the new content: the presets removed are gone, the        *)
(* presets added are there (stated for a directory that is listable, stays *)
(* within the cap and whose valid presets are all new to the cached view)  *)
C5_MtimeChangeReloads ==
  [][ ( /\ GetAllStep /\ WithinTTL /\ \E e \in Tracked : Modified(e)
        /\ dir = "ok" /\ WithinCap /\ AllNew )
      => /\ last'.ran
         /\ last'.res.t = "ok"
         /\ \A n \in GoneNames : ~InView(last'.res.view, n)
         /\ \A e \in Tracked :
              Modified(e) => \A c \in CandidatesOfFile(e.file) :
                               InView(last'.res.view, c.name) ]_vars

(* C6: when more than TTL has elapsed since loadedAt or a tracked file no  *)
(* longer exists, the next getAllPresets reloads and returns the view of   *)
(* the current content: the old presets are gone, the new ones are there   *)
(* (stated for a directory that is listable, stays within the cap and      *)
(* whose valid presets are all new to the cached view)                     *)
C6_StaleReloads ==
  [][ ( /\ GetAllStep /\ cache.k = "entry"
        /\ \/ now - cache.loadedAt > ttl
           \/ \E e \in Tracked : Vanished(e)
        /\ dir = "ok" /\ WithinCap /\ AllNew )
      => /\ last'.ran
         /\ last'.res.t = "ok"
         /\ \A n \in GoneNames : ~InView(last'.res.view, n)
         /\ \A c \in Candidates : InView(last'.res.view, c.name) ]_vars

(* C7: clearCache leaves the cache empty whatever it held, and the next    *)
(* getAllPresets or getPreset runs the loader                              *)
C7_ClearCacheForcesReload ==
  [][ /\ last'.op = "clearCache" => cache'.k = "null"
      /\ (CallStep /\ cache.k = "null") => last'.ran ]_vars

C7_Witness ==
  /\ last.op \in {"getAllPresets", "getPreset"}
  /\ last.cleared /\ last.why = "empty" /\ last.ran

(* C8: under every interleaving the cache is empty or holds the view of a  *)
(* finished loader pass, and every view returned is the view of a finished *)
(* pass                                                                    *)
C8_NoPartialView ==
  /\ cache.k = "entry" => cache.presets \in hist
  /\ \A p \in Callers : procs[p].res.t = "ok" => procs[p].res.view \in hist

C8_Witness ==
  \E p, q \in Callers :
    /\ procs[p].pc = "read" /\ Len(procs[p].mtimes) = 2
    /\ procs[p].all # <<>>
    /\ procs[q].pc = "done" /\ procs[q].res.t = "ok"
    /\ cache.k = "entry"

(* the load of the directory as it is now without the file f *)
LoadWithout(f) ==
  loadUserPresets(impl, dir, [files EXCEPT ![f] = Absent],
                  SelectSeq(<<"a.json", "b.json">>,
                            LAMBDA g : g # f /\ files[g].exists),
                  NoCache, now).res
Unparsable(f) == files[f].exists /\ ~TextOf(files[f].text).wf

C12_ValidPresetsLoaded ==
  ( /\ last.op = "getAllPresets" /\ last.ran /\ last.res.t = "ok"
    /\ dir = "ok" /\ WithinCap )
  => \A c \in Candidates :
       \E i \in 1..Len(last.res.view) :
         /\ last.res.view[i].name = c.name
         /\ last.res.view[i] \in Candidates

(* C13: every view returned by getAllPresets holds at most                 *)
(* MAX_PRESETS_TOTAL presets, the built-ins counted with the user presets  *)
C13_AtMostCap ==
  ReturnedView => Len(last.res.view) <= MAX_PRESETS_TOTAL

(* the raw value is an object whose name is a string that matches the      *)
(* name pattern once trimmed                                               *)
HasValidName(v) ==
  /\ v.k = "object"
  /\ Get(v, "name").k = "string"
  /\ MatchesPresetName(Trim(Get(v, "name").s))
(* the number of elements of properties that the filter keeps *)
Remaining(v) ==
  IF Get(v, "properties").k # "array" THEN 0
  ELSE Cardinality({i \in 1..Len(Get(v, "properties").a) :
                      KeepProperty(Get(v, "properties").a[i])})

(* C14: a raw preset with a valid name is accepted exactly when between 1  *)
(* and MAX_PROPERTIES_PER_PRESET properties remain after filtering, and an *)
(* accepted preset holds all of them (a longer list is not truncated)      *)
C14_PropertyCountBounds ==
  (vOut # NotRun /\ HasValidName(vIn))
  => /\ vOut.t = "ok" <=>
          (1 <= Remaining(vIn) /\ Remaining(vIn) <= MAX_PROPERTIES_PER_PRESET)
     /\ vOut.t = "ok" => Len(vOut.p.properties) = Remaining(vIn)

C14_Witness ==
  /\ HasValidName(vIn) /\ vOut.t = "ok"
  /\ Len(vOut.p.properties) = MAX_PROPERTIES_PER_PRESET
  /\ Len(Get(vIn, "properties").a) > MAX_PROPERTIES_PER_PRESET

(* C15: whatever the state of the preset directory, getAllPresets and      *)
(* getPreset complete with a result and do not throw                       *)
C15_CallsNeverThrow ==
  last.op \in {"getAllPresets", "getPreset"} => last.res.t # "throw"

(* the concatenation that a merge works on, and the indices of its         *)
(* elements whose key no earlier element has                               *)
Concatenated == vIn.base \o (IF vIn.extra.k = "array" THEN vIn.extra.a ELSE <<>>)
FirstOfKey == {i \in 1..Len(Concatenated) :
                 \A j \in 1..(i - 1) : Key(Concatenated[j]) # Key(Concatenated[i])}
NthFirst(k) == CHOOSE i \in FirstOfKey : Cardinality({j \in FirstOfKey : j <= i}) = k

(* C17: mergeProperties returns the concatenation of base and extra        *)
(* without the elements whose key namespace::name an earlier element has:  *)
(* no key twice, the first occurrence of each key kept, the order kept; an *)
(* absent extra counts as the empty list                                   *)
C17_MergeKeepsFirstOfKey ==
  vOut.t = "merged" =>
    /\ Len(vOut.list) = Cardinality(FirstOfKey)
    /\ \A k \in 1..Len(vOut.list) : vOut.list[k] = Concatenated[NthFirst(k)]
    /\ \A k, l \in 1..Len(vOut.list) :
         k # l => Key(vOut.list[k]) # Key(vOut.list[l])

C17_Witness ==
  /\ vOut.t = "merged" /\ ~vIn.again
  /\ vIn.extra.k = "array"
  /\ Len(vOut.list) = 2 /\ Len(Concatenated) = 4
  /\ vOut.list[2] = vIn.extra.a[1]

(* C18: merging the result of mergeProperties(A, B) with B once more gives *)
(* that result again, element by element                                   *)
C18_MergeIdempotent ==
  (vOut.t = "merged" /\ vIn.again) => vOut.list = vIn.base

C18_Witness ==
  /\ vOut.t = "merged" /\ vIn.again
  /\ vIn.extra.k = "array" /\ Len(vIn.extra.a) = 2
  /\ Len(vOut.list) = 3


(* the child elements of D:prop, as written *)
ElementsOf(text) ==
  SubSeq(text, (CHOOSE i \in 1..Len(text) : text[i] = XmlOpenProp) + 1, Len(text) - 1)
(* the alias the rule gives a namespace of the list: D for DAV:, and N     *)
(* followed by the number of distinct other namespaces that appear before  *)
(* its first appearance                                                    *)
FirstAt(properties, ns) ==
  FirstOf({i \in 1..Len(properties) : properties[i].namespace = ns})
AliasOf(properties, ns) ==
  IF ns = NsDAV THEN <<"D">>
  ELSE <<"N">> \o DigitsOf(Cardinality(
         {properties[j].namespace : j \in 1..(FirstAt(properties, ns) - 1)} \ {NsDAV}))
ElementsByRule(properties) ==
  Join([k \in 1..Len(properties) |->
          <<"<">> \o AliasOf(properties, properties[k].namespace) \o <<":">>
          \o properties[k].name \o <<"/>">>],
       <<"\n    ">>)

(* C19: every property is written under the alias of its namespace: D for  *)
(* DAV:, and N0, N1, ... for the other distinct namespaces in the order of *)
(* their first appearance, DAV: not counted.                               *)
C19_AliasesByFirstAppearance ==
  vOut.t = "xml" => ElementsOf(vOut.text) = ElementsByRule(vIn)

(* the five entities and the attribute values of the body, as an XML       *)
(* parser delimits them: from the opening quote to the next quote          *)
Entities ==
  {<<"&","a","m","p",";">>, <<"&","l","t",";">>, <<"&","g","t",";">>,
   <<"&","q","u","o","t",";">>, <<"&","a","p","o","s",";">>}
StartsAt(text, k, s) ==
  k + Len(s) - 1 <= Len(text) /\ SubSeq(text, k, k + Len(s) - 1) = s
Contains(text, s) == \E k \in 1..Len(text) : StartsAt(text, k, s)
ValueEnd(text, i) == FirstOf({j \in (i + 1)..Len(text) : text[j] = "\""})
ValueEscaped(text, i, e) ==
  /\ \A k \in (i + 1)..(e - 1) :
       /\ text[k] \notin {"<", ">", "'"}
       /\ text[k] = "&" => \E s \in Entities : StartsAt(text, k, s)
  /\ text[e + 1] \in {" ", XmlOpenProp}
NeedsEscape(ns) == \E i \in 1..Len(ns) : ns[i] \in {"&", "<", ">", "\"", "'"}

(* C20: every attribute value of the body is free of raw <, >, " and ',    *)
(* every & in it starts an entity, and no namespace that holds one of the  *)
(* five characters appears raw in the body.                                *)
C20_NamespacesEscaped ==
  vOut.t = "xml" =>
    /\ \A i \in 1..Len(vOut.text) :
         vOut.text[i] = "=\"" => ValueEscaped(vOut.text, i, ValueEnd(vOut.text, i))
    /\ \A k \in 1..Len(vIn) :
         NeedsEscape(vIn[k].namespace) => ~Contains(vOut.text, vIn[k].namespace)


(* a handler looked a name up in a view that has no preset of that name *)
LookedUpUnknown ==
  /\ last.op \in {"get_property_preset", "dav_request"}
  /\ last.looked
  /\ last.all.t = "ok"
  /\ \A i \in 1..Len(last.all.view) :
       last.all.view[i].name # (IF last.op = "dav_request" THEN last.name.s ELSE last.name)

(* C16: when a handler looks up a name that no preset of the current view  *)
(* has, getPreset returns undefined and the handler returns, without       *)
(* throwing, an isError result that carries the names of all presets of    *)
(* the view, in the order of the view.                                     *)
C16_UnknownNameIsNotFound ==
  LookedUpUnknown =>
    /\ last.found.t = "undefined"
    /\ last.resp.t = "result"
    /\ last.resp.isError
    /\ last.resp.what = "notFound"
    /\ last.resp.available = [i \in 1..Len(last.all.view) |-> last.all.view[i].name]

(* dav_request is refused for an unknown name while the view holds user    *)
(* presets beside the built-in ones                                        *)
C16_Witness ==
  /\ LookedUpUnknown
  /\ last.op = "dav_request"
  /\ last.resp.what = "notFound"
  /\ Len(last.resp.available) > Len(BUILTIN_PRESETS)


(* the root start tag of the body, and the aliases an element can carry *)
RootTag(text) ==
  SubSeq(text, 2, (CHOOSE i \in 1..Len(text) : text[i] = XmlOpenProp) - 1)
NamespaceSet(properties) == {properties[k].namespace : k \in 1..Len(properties)}
Aliases == {<<"D">>, ObjectString} \cup {<<"N">> \o DigitsOf(n) : n \in 0..MaxProps}
(* the xmlns attribute that declares alias a for namespace ns, the value   *)
(* written as it is or with the five characters replaced by entities       *)
Declares(text, a, ns) ==
  \E v \in {ns, escapeXmlAttribute(ns)} :
    Cardinality({i \in 1..Len(text) :
       StartsAt(text, i, <<"xmlns:">> \o a \o <<"=\"">> \o v \o <<"\"">>)}) = 1
ElementsUnder(properties, f) ==
  Join([k \in 1..Len(properties) |->
          <<"<">> \o f[properties[k].namespace] \o <<":">>
          \o properties[k].name \o <<"/>">>],
       <<"\n    ">>)

(* C21: the body of a non-empty list starts with the XML declaration, its  *)
(* root element has one xmlns attribute per distinct namespace, each       *)
(* declaring an alias of its own, and its children are the elements        *)
(* alias:name of the properties, one per property, in the order of the     *)
(* list.                                                                   *)
C21_OneDeclarationPerNamespace ==
  (vOut.t = "xml" /\ vIn # <<>>) =>
    /\ vOut.text[1] = XmlHead
    /\ Cardinality({i \in 1..Len(RootTag(vOut.text)) : RootTag(vOut.text)[i] = "xmlns:"})
         = Cardinality(NamespaceSet(vIn))
    /\ \E f \in [NamespaceSet(vIn) -> Aliases] :
         /\ \A ns \in NamespaceSet(vIn) : Declares(RootTag(vOut.text), f[ns], ns)
         /\ \A m, n \in NamespaceSet(vIn) : m # n => f[m] # f[n]
         /\ ElementsOf(vOut.text) = ElementsUnder(vIn, f)


(* C22: a PROPFIND dav_request whose preset is found sends the body        *)
(* generatePropfindXml(mergeProperties(preset.properties,                  *)
(* additionalProperties)), whatever body the caller gave; a request        *)
(* without a preset sends the body of the caller, or none when the caller  *)
(* gave none.                                                              *)
C22_PresetBodySent ==
  last.op = "dav_request" =>
    /\ (last.looked /\ last.found.t = "preset") =>
         /\ last.sent.t = "request"
         /\ last.sent.body =
              JStr(generatePropfindXml("sync",
                     mergeProperties(last.found.p.properties,
                                     last.args.additionalProperties)))
    /\ (last.args.preset = Undefined /\ last.sent.t = "request") =>
         last.sent.body = last.args.body

(* a request with a preset, additional properties and a body of the caller *)
C22_Witness ==
  /\ last.op = "dav_request" /\ last.looked /\ last.found.t = "preset"
  /\ last.args.body # Undefined
  /\ last.args.additionalProperties # Undefined
  /\ last.sent.t = "request" /\ last.sent.body # last.args.body


(* C23: a load that finds no preset directory returns the built-in         *)
(* catalogue, does not throw, and leaves a cache entry that holds the      *)
(* catalogue and tracks no file.                                           *)
C23_MissingDirectoryGivesBuiltins ==
  (last.op \in {"getAllPresets", "getPreset"} /\ last.ran /\ dir = "missing") =>
    /\ last.res.t # "throw"
    /\ last.op = "getAllPresets" => last.res = Returned(BUILTIN_PRESETS)
    /\ cache = Entry(now, BUILTIN_PRESETS, <<>>)

(* the directory was removed after a load that tracked files in it *)
C23_Witness ==
  /\ last.op = "getAllPresets" /\ last.ran /\ dir = "missing"
  /\ last.why = "vanished"
  /\ cache = Entry(now, BUILTIN_PRESETS, <<>>)


(* C24: in the view that list_property_presets describes, and in its       *)
(* descriptors, only the presets of the built-in catalogue have builtin =  *)
(* true: a preset loaded from a file has builtin = false.                  *)
C24_OnlyCatalogueIsBuiltin ==
  (last.op = "list_property_presets" /\ last.all.t = "ok") =>
    \A i \in 1..Len(last.all.view) :
      (last.all.view[i].builtin \/ last.resp.presets[i].builtin) =>
        \E j \in 1..Len(BUILTIN_PRESETS) : last.all.view[i] = BUILTIN_PRESETS[j]


(* C25: with a TTL of 0, a call that finds a populated cache whose tracked *)
(* files all exist with their recorded modification times returns the      *)
(* cached view without running the loader, however long after the load.    *)
C25_ZeroTTLRechecksOnly ==
  [][ ( /\ CallStep /\ ttl = 0 /\ cache.k = "entry"
        /\ \A e \in Tracked : ~Vanished(e) /\ ~Modified(e) )
      => /\ ~last'.ran
         /\ cache' = cache ]_vars


(* the name of a raw value, taken as given: a string of the class          *)
(* [-_a-zA-Z0-9]+                                                          *)
NameMatchesAsGiven(v) ==
  Get(v, "name").k = "string" /\ MatchesPresetName(Get(v, "name").s)

(* C26: validatePreset returns null for every raw value that is not an     *)
(* object, whose name as given is empty, white space or outside the class  *)
(* [-_a-zA-Z0-9]+, or whose properties is not a list; the name of an       *)
(* accepted preset matches the class.                                      *)
C26_RejectsBadNames ==
  vOut # NotRun =>
    /\ (vIn.k # "object" \/ ~NameMatchesAsGiven(vIn)
        \/ Get(vIn, "properties").k # "array") => vOut = VNull
    /\ vOut.t = "ok" => MatchesPresetName(vOut.p.name)

(* an element of properties that the rule of the filter keeps: an object   *)
(* with a namespace and a name, the namespace DAV: or a URL with a scheme, *)
(* the name of the class [-_a-zA-Z0-9:.]+                                  *)
ValidElement(e) ==
  /\ e.k = "object"
  /\ Truthy(Get(e, "namespace")) /\ Truthy(Get(e, "name"))
  /\ ToStringJS(Get(e, "namespace")) = NsDAV
       \/ ParsesAsUrl(ToStringJS(Get(e, "namespace")))
  /\ MatchesPropName(ToStringJS(Get(e, "name")))
ValidElements(v) == SelectSeq(Get(v, "properties").a, ValidElement)
AsProperties(es) ==
  [i \in 1..Len(es) |-> Prop(ToStringJS(Get(es[i], "namespace")),
                             ToStringJS(Get(es[i], "name")))]
HasList(v) == HasValidName(v) /\ Get(v, "properties").k = "array"

C28_LoadsFromNewDirectory ==
  [][ (last.op = "clearCache" /\ envDir = TempDir /\ GetAllStep)
      => \E listing \in {FilterJson(o) : o \in Listings(TempFiles)} :
           last'.res = loadUserPresets(impl, "ok", TempFiles, listing, cache, now).res
    ]_vars


(* a text whose entries all are valid presets *)
ValidText(text) ==
  /\ text.wf
  /\ \A c \in (IF text.v.k = "array" THEN {text.v.a[i] : i \in 1..Len(text.v.a)}
                ELSE {text.v}) : validatePreset(c).t = "ok"
ValidTable == [id \in TextIds |-> ValidText(TextOf(id))]
ValidContent(f) == files[f].exists /\ ValidTable[files[f].text]

(* the cap test of loadUserPresets for every pair of contents the two     *)
(* .json files can have, computed once                                     *)
TextChoices == TextIds \cup {"absent"}
CandidatesOfChoice(id) == IF id = "absent" THEN {} ELSE CandidatesTable[id]
CapPairs ==
  {<<p[1], p[2]>> :
     p \in {q \in TextChoices \X TextChoices :
              Cardinality(CandidatesOfChoice(q[1]) \cup CandidatesOfChoice(q[2]))
                + Len(BUILTIN_PRESETS) <= MAX_PRESETS_TOTAL}}
ChoiceOf(f) == IF dir = "ok" /\ files[f].exists THEN files[f].text ELSE "absent"
CapHolds == <<ChoiceOf("a.json"), ChoiceOf("b.json")>> \in CapPairs

C30_LoaderAlwaysPublishes ==
  [][ (CallStep /\ last'.ran)
      => /\ cache'.k = "entry"
         /\ cache'.loadedAt = now
         /\ GetAllStep => /\ last'.res.t = "ok"
                          /\ cache'.presets = last'.res.view ]_vars


(* the aliases that prefix an element of the body: D, which the root and   *)
(* the prop element carry, and what stands between the < of a child and    *)
(* the colon that follows it                                               *)
PrefixAt(es, i) ==
  SubSeq(es, i + 1, FirstOf({j \in (i + 1)..Len(es) : es[j] = ":"}) - 1)
UsedPrefixes(text) ==
  {<<"D">>} \cup {PrefixAt(ElementsOf(text), i) :
                    i \in {k \in 1..Len(ElementsOf(text)) : ElementsOf(text)[k] = "<"}}
DeclaredIn(root, a) ==
  \E i \in 1..Len(root) : StartsAt(root, i, <<"xmlns:">> \o a \o <<"=\"">>)

(* C31: in the body of a non-empty list every alias that prefixes an       *)
(* element, the D of propfind and prop included, is declared by an xmlns   *)
(* attribute of the root element                                           *)
C31_PrefixesDeclared ==
  (vOut.t = "xml" /\ vIn # <<>>)
    => \A a \in UsedPrefixes(vOut.text) : DeclaredIn(RootTag(vOut.text), a)


(* a property that validatePreset keeps *)
PassesValidation(p) == isValidNamespace(p.namespace) /\ MatchesPropName(p.name)

(* C32: mergeProperties drops an element only if an earlier element has    *)
(* the same namespace and the same name: every element of the              *)
(* concatenation of base and extra that no earlier element equals is in    *)
(* the result, also when another element has the same key                  *)
C32_DropsOnlyEqualProperties ==
  (vOut.t = "merged" /\ \A i \in 1..Len(Concatenated) : PassesValidation(Concatenated[i]))
    => \A i \in 1..Len(Concatenated) :
         \E k \in 1..Len(vOut.list) : vOut.list[k] = Concatenated[i]


(* C33: in the asynchronous revision a getAllPresets call that went        *)
(* through its validity check, with clearCache running at any moment in    *)
(* between, completes without throwing and returns the view of a finished  *)
(* pass                                                                    *)
C33_ClearDuringCheckNoThrow ==
  [][ \A p \in Callers :
        (procs[p].pc \in {"check", "hit"} /\ procs'[p].pc = "done")
          => /\ procs'[p].res.t = "ok"
             /\ procs'[p].res.view \in hist' ]_vars


(* C34: in the asynchronous revision a getAllPresets call that started     *)
(* after the latest clearCache and is served from the cache does not       *)
(* return an entry assigned by a loader pass that was under way when that  *)
(* clearCache ran                                                          *)
C34_NoViewFromBeforeClear ==
  [][ \A p \in Callers :
        ( /\ procs[p].pc = "hit" /\ procs'[p].pc = "done"
          /\ p \notin stale.calls
          /\ procs'[p].res.t = "ok" )
          => ~stale.entry ]_vars


(* the properties that a dav_request with a found preset writes *)
WrittenProperties == mergeProperties(last.found.p.properties, last.args.additionalProperties)
SentWithPreset ==
  /\ last.op = "dav_request" /\ last.looked
  /\ last.found.t = "preset"
  /\ last.sent.t = "request"

(* C35: every property that a dav_request with a preset writes into the    *)
(* body it sends has a name of the allowed characters and a namespace that *)
(* is DAV: or parses as a URL, the additionalProperties of the caller      *)
(* included, and the children of D:prop hold no < and no > beyond the one  *)
(* element per property                                                    *)
C35_WrittenPropertiesValid ==
  SentWithPreset =>
    /\ \A i \in 1..Len(WrittenProperties) : PassesValidation(WrittenProperties[i])
    /\ Cardinality({k \in 1..Len(ElementsOf(last.sent.body.s)) :
                      ElementsOf(last.sent.body.s)[k] \in {"<", ">"}})
         = Len(WrittenProperties)


(* the views that a load of the directory as it is now returns *)
CurrentViews ==
  {loadUserPresets("async", dir, files, FilterJson(o), NoCache, now).res.view :
     o \in Listings(files)}
(* the validity check, run now, accepts an entry that does not show the    *)
(* content of the directory                                                *)
MissedModification ==
  /\ cache.k = "entry"
  /\ cacheValid(cache, now, ttl, dir, files)
  /\ cache.presets \notin CurrentViews
RecordedNotNewer ==
  cache.k = "entry" =>
    \A i \in 1..Len(cache.mtimes) :
      cache.mtimes[i].mtime <= files[cache.mtimes[i].file].mtime

(* C36 as stated: the modification time recorded for a file is never newer *)
(* than the file, and no modification of a file, made while a pass runs or *)
(* after it, is missed: the validity check never accepts an entry whose    *)
(* view is not the view of the current content                             *)
C36_NoModificationMissed ==
  RecordedNotNewer /\ ~MissedModification

(* C36 amended: the same for the modifications that change the             *)
(* modification time of the file                                           *)
C36_TimedModificationsDetected ==
  RecordedNotNewer /\ (~stale.quiet => ~MissedModification)

(* an entry returned by a finished call, with b.json rewritten since the   *)
(* pass took its modification time: the validity check rejects the entry   *)
C36_Witness ==
  /\ cache.k = "entry" /\ ~stale.quiet
  /\ \E p \in Callers : procs[p].pc = "done" /\ procs[p].res = Returned(cache.presets)
  /\ \E i \in 1..Len(cache.mtimes) :
       /\ cache.mtimes[i].file = "b.json"
       /\ cache.mtimes[i].mtime < files["b.json"].mtime
  /\ cache.presets \notin CurrentViews
  /\ ~cacheValid(cache, now, ttl, dir, files)


(* C37: a PROPFIND dav_request whose preset name no preset of the current  *)
(* view has sends no request to the WebDAV server and returns an error     *)
(* result                                                                  *)
C37_UnknownPresetSendsNothing ==
  (LookedUpUnknown /\ last.op = "dav_request")
    => /\ last.sent = NotSent
       /\ last.resp.t = "result" /\ last.resp.isError

(* such a request, for which the caller gave a body of its own *)
C37_Witness ==
  /\ LookedUpUnknown /\ last.op = "dav_request"
  /\ last.args.method = "PROPFIND"
  /\ last.args.body # Undefined
  /\ last.sent = NotSent
  /\ last.resp.what = "notFound"


(* a dav_request that found its preset *)
FoundPreset(l) == l.op = "dav_request" /\ l.looked /\ l.found.t = "preset"

(* C38: a dav_request with a preset leaves in the cache what the lookup of *)
(* the preset leaves there, the merged list is not written into the view;  *)
(* and a get_property_preset of the same name that follows the request and *)
(* is served from the same cache entry finds the preset the request found, *)
(* with the same property list                                             *)
C38_RequestLeavesViewUnchanged ==
  [][ /\ FoundPreset(last')
           => \E listing \in {FilterJson(o) : o \in Listings(files)} :
                cache' = getPreset(impl, dir, files, listing, cache, now, ttl,
                                   last'.name.s).cache
      /\ ( /\ FoundPreset(last)
           /\ last'.op = "get_property_preset" /\ last'.name = last.name.s
           /\ cacheValid(cache, now, ttl, dir, files) )
           => /\ cache' = cache
              /\ last'.found = last.found ]_vars

(* a request that sent a body with more properties than its preset has,    *)
(* the cache entry still holding the list of the preset                    *)
C38_Witness ==
  /\ FoundPreset(last) /\ last.sent.t = "request"
  /\ last.args.additionalProperties # Undefined
  /\ Len(mergeProperties(last.found.p.properties, last.args.additionalProperties))
       > Len(last.found.p.properties)
  /\ cache.k = "entry"
  /\ Find(cache.presets, last.name.s) = last.found

=============================================================================
